---- MODULE Spec2Model ----
(***************************************************************************)
(* Model of discordian: the per-organization event Coordinator, the        *)
(* in-memory Store (threads, DM info, dedup markers, claims, pending-DM    *)
(* queue) and the notification Manager that drains the pending-DM queue.   *)
(* Time is counted in minutes.                                             *)
(***************************************************************************)
EXTENDS Integers, Sequences, FiniteSets, TLC

\* ------------------------------------------------------------------ bounds
MaxTime == 1
MaxStoreTime == 2
MaxClaimCalls == 3
MaxQueued == 1
MaxLookups == 4
MaxChanges == 1
MaxCancelled == 1

\* ------------------------------------------------------- program constants
eventDeduplicationTTL == 60
maxConcurrentEvents == 10
eventRetain == 1440
threadRetain == 43200
dmRetain == 129600
minDMInterval == 1
checkInterval == 1
cacheTTL == 1440
NoTime == -1
\* the retry limit the Manager's tests name (maxRetries)
maxRetries == 3

\* ------------------------------------------------------------- the universe
PRURL == "https://github.com/o/r/pull/1"
ConfigURL == "https://github.com/o/.codeGROOVE/pull/2"
BadURL == "not-a-pr-url"
URLs == {PRURL, ConfigURL, BadURL}
DeliveryIDs == {"d1", "d2"}
Events == [DeliveryID : DeliveryIDs, URL : URLs]

Workers == {1, 2}
Managers == {1, 2}

Usernames == {"bob", "carol"}
DiscordIDs == {"u-bob"}
GuildIDs == {"g1", "g2"}
ChannelNames == <<"general", "prs">>
ChannelIDs == {"chan-general", "chan-prs"}
ClaimTTLs == {1, 2}

VARIABLES env, now, processed, threads, claims, pendingDMs, dmInfo,
          tagged, wk, dispatched, eventSem, wg, reloads,
          effects, queued, mgr, sends, attempts, claimLog,
          sources, cache, inflight, lookups,
          cancelled, waiter, fidoEvents, stateCall, lookupCall,
          fidoQueue, inst, queueLog, repoChannels

vars == <<env, now, processed, threads, claims, pendingDMs, dmInfo,
          tagged, wk, dispatched, eventSem, wg, reloads,
          effects, queued, mgr, sends, attempts, claimLog,
          sources, cache, inflight, lookups,
          cancelled, waiter, fidoEvents, stateCall, lookupCall,
          fidoQueue, inst, queueLog, repoChannels>>

storeVars == <<processed, threads, claims, pendingDMs, dmInfo>>
coordVars == <<tagged, wk, dispatched, eventSem, wg, reloads, effects, queued>>
mgrVars == <<mgr, sends, attempts>>
mapperVars == <<sources, cache, inflight, lookups>>
\* the pending-DM queue value in the durable backend of FidoStore, the
\* FidoStore instances working on it, and the calls that have returned
fidoVars == <<fidoQueue, inst, queueLog>>
\* the arguments and result of a call of StateFromAnalysis, and of a call of
\* Client.LookupUserByUsername; the channels the configuration names for the
\* repo (ConfigManager.ChannelsForRepo)
extraVars == <<stateCall, lookupCall, fidoVars, repoChannels>>
\* the ProcessEvent calls whose context was cancelled, the caller of Wait, and the dedup
\* markers of the second Store implementation (FidoStore.events)
sideVars == <<cancelled, waiter, fidoEvents, extraVars>>

\* ---------------------------------------------------------------- the Store
threadKey(channelID) == <<"o", "r", 1, channelID>>
dmKey(userID, prURL) == <<userID, prURL>>
ThreadClaimKey(channelID) == <<"claim:thread", threadKey(channelID)>>
DMClaimKey(userID) == <<"claim:dm", dmKey(userID, PRURL)>>
ClaimKeys == {ThreadClaimKey(c) : c \in ChannelIDs} \cup {DMClaimKey(u) : u \in DiscordIDs}

NoThread == [ThreadID |-> 0, MessageID |-> 0, ChannelType |-> "", LastState |-> "",
             UpdatedAt |-> NoTime, found |-> FALSE]
NoDMInfo == [ChannelID |-> "", MessageID |-> 0, SentAt |-> NoTime, found |-> FALSE]

\* MemoryStore.WasProcessed
WasProcessedNever(eventKey) == FALSE
WasProcessed(eventKey) ==
  /\ processed[eventKey] # NoTime
  /\ ~(now - processed[eventKey] > eventRetain)

\* the test inside ClaimThread / ClaimDM: an unexpired claim is held
ClaimHeldNever(cl, key, t) == FALSE
ClaimHeldForever(cl, key, t) == cl[key] # NoTime
ClaimHeld(cl, key, t) == cl[key] # NoTime /\ t < cl[key]

\* the claims map after a ClaimThread / ClaimDM call on key with ttl at time t
ClaimResult(cl, key, t) == ~ClaimHeld(cl, key, t)
ClaimUpdate(cl, key, ttl, t) ==
  IF ClaimHeld(cl, key, t) THEN cl ELSE [cl EXCEPT ![key] = t + ttl]


\* MemoryStore.Cleanup: drops old threads, DM infos, dedup markers, expired claims
CleanupThreads(th, t) ==
  [c \in ChannelIDs |-> IF th[c].found /\ t - th[c].UpdatedAt > threadRetain THEN NoThread ELSE th[c]]
CleanupDMInfo(di, t) ==
  [u \in DiscordIDs |-> IF di[u].found /\ t - di[u].SentAt > dmRetain THEN NoDMInfo ELSE di[u]]
CleanupProcessed(pr, t) ==
  [e \in Events |-> IF pr[e] # NoTime /\ t - pr[e] > eventRetain THEN NoTime ELSE pr[e]]
CleanupClaims(cl, t) ==
  [k \in ClaimKeys |-> IF cl[k] # NoTime /\ t > cl[k] THEN NoTime ELSE cl[k]]

\* ------------------------------------------------------ the identity mapper
\* UserMapper.DiscordID: "" when no tier resolves the username
DiscordID(username) == IF username = "bob" THEN "u-bob" ELSE ""
\* UserMapper.Mention: "<@id>" for a resolved user, the plain username otherwise
MentionAlwaysTags(username) == <<"<", "@", username, ">">>
Mention(username) ==
  IF DiscordID(username) # "" THEN <<"<", "@", DiscordID(username), ">">> ELSE <<username>>

\* strings the Mapper inspects are sequences of characters
Digits == {"0", "1", "2", "3", "4", "5", "6", "7", "8", "9"}
Rep(c, n) == [i \in 1..n |-> c]
NoID == <<>>
ConfigID == Rep("1", 18)
HandleID == Rep("2", 18)
StoredID == Rep("3", 18)
DirectoryID == Rep("9", 18)
Alice == <<"a", "l", "i", "c", "e">>
Handle == <<"a", "l", "i", "c", "e", "#", "7">>
MapperUsers == {Alice}
Callers == {1, 2}

\* isAllDigits: non-empty and only digit characters
isAllDigits(str) == str # <<>> /\ \A i \in 1..Len(str) : str[i] \in Digits
\* Mapper.DiscordID: a config value that is a 17-20 digit snowflake is an id
IsNumericID(v) == Len(v) >= 17 /\ Len(v) <= 20 /\ isAllDigits(v)

\* what the three tiers hold: the YAML config (an id, a Discord username or
\* nothing), the stored self-service mappings, the guild directory
NotStored == [found |-> FALSE, DiscordUserID |-> NoID]
Sources ==
  { [config |-> [u \in MapperUsers |-> cv], stored |-> [u \in MapperUsers |-> sv],
     directory |-> (Alice :> da) @@ (Handle :> dh)] :
      <<cv, dh>> \in {<<NoID, NoID>>, <<ConfigID, NoID>>, <<Handle, NoID>>, <<Handle, HandleID>>},
      sv \in {NotStored, [found |-> TRUE, DiscordUserID |-> StoredID]},
      da \in {NoID, DirectoryID} }
NoSources ==
  [config |-> [u \in MapperUsers |-> NoID], stored |-> [u \in MapperUsers |-> NotStored],
   directory |-> (Alice :> NoID) @@ (Handle :> NoID)]

\* ConfigLookup.DiscordUserID, Store.UserMapping, DiscordLookup.LookupUserByUsername
DiscordUserID(src, username) == src.config[username]
UserMapping(src, username) == src.stored[username]
LookupUserByUsername(src, name) ==
  IF name \in DOMAIN src.directory THEN src.directory[name] ELSE NoID

\* Mapper.DiscordID after a cache miss: the tiers in order; the result, the
\* tiers consulted and whether cacheResult is called
ResolveDirectoryFirst(src, username) ==
  IF LookupUserByUsername(src, username) # NoID
  THEN [id |-> LookupUserByUsername(src, username), tiers |-> {"directory"}, cached |-> TRUE]
  ELSE [id |-> DiscordUserID(src, username), tiers |-> {"directory", "config"},
        cached |-> DiscordUserID(src, username) # NoID]
Resolve(src, username) ==
  LET configValue == DiscordUserID(src, username)
      mapping == UserMapping(src, username)
  IN  IF configValue # NoID /\ IsNumericID(configValue) THEN
        [id |-> configValue, tiers |-> {"config"}, cached |-> TRUE]
      ELSE IF configValue # NoID /\ LookupUserByUsername(src, configValue) # NoID THEN
        [id |-> LookupUserByUsername(src, configValue),
         tiers |-> {"config", "directory"}, cached |-> TRUE]
      ELSE IF mapping.found THEN
        [id |-> mapping.DiscordUserID,
         tiers |-> {"config", "store"} \cup (IF configValue # NoID THEN {"directory"} ELSE {}),
         cached |-> TRUE]
      ELSE IF LookupUserByUsername(src, username) # NoID THEN
        [id |-> LookupUserByUsername(src, username),
         tiers |-> {"config", "store", "directory"}, cached |-> TRUE]
      ELSE
        [id |-> NoID, tiers |-> {"config", "store", "directory"}, cached |-> FALSE]

\* Mapper.cache: an entry per username, absent at first
NoEntry == [present |-> FALSE, cachedAt |-> NoTime, discordID |-> NoID]
\* Mapper.DiscordID: the cache check (with TTL)
CacheHit(entry, t) == entry.present /\ t - entry.cachedAt < cacheTTL

IdleCall == [pc |-> "idle", user |-> NoID, res |-> [id |-> NoID, tiers |-> {}, cached |-> FALSE],
             begun |-> 0, beganAt |-> NoTime, src |-> NoSources]

\* ---------------------------------------------------------- the Coordinator
\* ParsePRURL: (owner, repo, number, ok)
ParsePRURL(url) ==
  IF url = PRURL THEN [owner |-> "o", repo |-> "r", number |-> 1, ok |-> TRUE]
  ELSE IF url = ConfigURL THEN [owner |-> "o", repo |-> ".codeGROOVE", number |-> 2, ok |-> TRUE]
  ELSE [owner |-> "", repo |-> "", number |-> 0, ok |-> FALSE]

\* processEventSync: the event is for the organization's configuration repo
IsConfigRepoNever(repo) == FALSE
IsConfigRepo(repo) == repo = ".codeGROOVE"

\* queueDMNotifications: no DMs for a PR that is merged or closed
SkipsDMsNever(prState) == FALSE
SkipsDMs(prState) == prState \in {"merged", "closed"}

\* the id of the channel of that name
ChannelIDOf(name) == IF name = "general" THEN "chan-general" ELSE "chan-prs"
\* DiscordClient.IsForumChannel
IsForumChannel(channelID) == channelID = "chan-prs"

\* processEventSync: a malformed URL ends the processing of the event
InvalidURLNever(pr) == FALSE
InvalidURL(pr) == ~pr.ok

\* format.StateFromAnalysis
StateFromAnalysisDraftFirst(merged, closed, draft, workflowState, checksFailing, mergeConflict) ==
  IF draft THEN "draft" ELSE IF merged THEN "merged" ELSE IF closed THEN "closed"
  ELSE IF mergeConflict THEN "conflict" ELSE IF checksFailing > 0 THEN "tests_broken"
  ELSE "unknown"
StateFromAnalysis(merged, closed, draft, workflowState, checksFailing, mergeConflict) ==
  IF merged THEN "merged"
  ELSE IF closed THEN "closed"
  ELSE IF draft THEN "draft"
  ELSE IF mergeConflict THEN "conflict"
  ELSE IF checksFailing > 0 THEN "tests_broken"
  ELSE IF workflowState \in {"IN_DRAFT", "NEWLY_PUBLISHED"} THEN "draft"
  ELSE IF workflowState = "PUBLISHED_WAITING_FOR_TESTS" THEN "tests_running"
  ELSE IF workflowState = "TESTED_WAITING_FOR_FIXES" THEN "tests_broken"
  ELSE IF workflowState = "REVIEWED_NEEDS_REFINEMENT" THEN "changes_requested"
  ELSE IF workflowState = "APPROVED_WAITING_FOR_MERGE" THEN "approved"
  ELSE IF workflowState \in {"TESTED_WAITING_FOR_ASSIGNMENT", "ASSIGNED_WAITING_FOR_REVIEW",
                             "REFINED_WAITING_FOR_APPROVAL"} THEN "needs_review"
  ELSE "unknown"

\* the zero CheckResponse (&CheckResponse{})
EmptyCheckResponse ==
  [err |-> FALSE, merged |-> FALSE, closed |-> FALSE, draft |-> FALSE, workflowState |-> "",
   checksFailing |-> 0, mergeConflict |-> FALSE, users |-> {}]
\* what turn.Check can return: an open PR waiting for two reviewers, a merged
\* PR, or an error
OpenPR == [EmptyCheckResponse EXCEPT !.workflowState = "ASSIGNED_WAITING_FOR_REVIEW",
                                     !.users = {"bob", "carol"}]
MergedPR == [EmptyCheckResponse EXCEPT !.merged = TRUE, !.users = {"bob", "carol"}]
TurnError == [EmptyCheckResponse EXCEPT !.err = TRUE]
AnalysisChoices == {OpenPR, MergedPR, TurnError}
\* processEventSync: whether an error of turn.Check ends the processing
TurnErrorAbortsAlways(err) == err
TurnErrorAborts(err) == FALSE
\* processEventSync: the state computed from the analysis
prStateOf(resp) ==
  StateFromAnalysis(resp.merged, resp.closed, resp.draft, resp.workflowState,
                    resp.checksFailing, resp.mergeConflict)
\* ReminderDMDelay values the configuration can hold (minutes; 0 disables DMs)
DelayMinutes == {0, 1}
\* the collaborator calls that can return an error
DiscordOps == {"PostMessage", "UpdateMessage", "PostForumThread", "UpdateForumPost"}
DeliveryOps == {"SendDM", "SaveDMInfo", "RemovePendingDM", "PendingDMs"}
StoreReads == {"Thread"}
\* the environment of one run: the channels that resolve and that the bot can
\* post to, the configured DM delay, the users that are members of the guild,
\* the collaborator calls that fail
Environments == [channels : SUBSET ChannelIDs, delay : DelayMinutes,
                 inGuild : SUBSET DiscordIDs, failing : SUBSET (DiscordOps \cup DeliveryOps \cup StoreReads)]

IdleWorker == [pc |-> "idle", ev |-> [DeliveryID |-> "", URL |-> ""], prState |-> "",
               users |-> {}, idx |-> 0, exists |-> FALSE, info |-> NoThread,
               found |-> {}, doneAt |-> NoTime, redo |-> FALSE, calls |-> {},
               dmUsers |-> {}]
\* nobody has called Coordinator.Wait
IdleWaiter == [pc |-> "idle", seen |-> {}, pending |-> 0]
IdleManager == [pc |-> "idle", batch |-> {}, fetched |-> {}, lastSweep |-> NoTime,
                lastDMTime |-> [u \in DiscordIDs |-> NoTime]]

\* no call of StateFromAnalysis yet
NoStateCall ==
  [merged |-> FALSE, closed |-> FALSE, draft |-> FALSE, workflowState |-> "",
   checksFailing |-> 0, mergeConflict |-> FALSE, out |-> ""]

\* the values outside the Coordinator, the Stores, the Managers and the Mapper
NoLookupCall == [username |-> <<>>, members |-> <<>>, out |-> "", done |-> FALSE]
\* the FidoStore instances on one backend, and the ids of the PendingDMs
Instances == {1, 2}
PendingIDs == {"dm1", "dm2", "dm3"}
IdleInstance == [pc |-> "idle", op |-> "", id |-> "", queue |-> {}]
\* an empty queue value, nobody working on it
InitFido ==
  /\ fidoQueue = {}
  /\ inst = [i \in Instances |-> IdleInstance]
  /\ queueLog = [begun |-> {}, queued |-> {}, removing |-> {}, removed |-> {}]
InitExtras ==
  /\ stateCall = NoStateCall
  /\ lookupCall = NoLookupCall
  /\ InitFido
  /\ repoChannels = ChannelNames

\* the state after construction, with the given pool of workers
InitCore(workers) ==
  /\ env \in Environments
  /\ now = 0
  /\ processed = [e \in Events |-> NoTime]
  /\ threads = [c \in ChannelIDs |-> NoThread]
  /\ claims = [k \in ClaimKeys |-> NoTime]
  /\ pendingDMs = {}
  /\ dmInfo = [u \in DiscordIDs |-> NoDMInfo]
  /\ tagged = {}
  /\ wk = [w \in workers |-> IdleWorker]
  /\ dispatched = 0
  /\ eventSem = 0
  /\ wg = 0
  /\ reloads = 0
  /\ effects = {}
  /\ queued = {}
  /\ mgr = [m \in Managers |-> IdleManager]
  /\ sends = {}
  /\ attempts = {}
  /\ claimLog = <<>>
  /\ sources \in Sources
  /\ cache = [u \in MapperUsers |-> NoEntry]
  /\ inflight = [c \in Callers |-> IdleCall]
  /\ lookups = <<>>
  /\ cancelled = {}
  /\ waiter = IdleWaiter
  /\ fidoEvents = [e \in Events |-> NoTime]

InitState(workers) == InitCore(workers) /\ InitExtras

Init == InitState(Workers)

\* time passes, up to the given limit
Tick(limit) ==
  /\ now < limit
  /\ now' = now + 1
  /\ UNCHANGED <<sideVars, mapperVars, env, storeVars, coordVars, mgrVars, claimLog>>

\* MemoryStore.ClaimThread called by some client of the store
ClaimThread(channelID, ttl) ==
  /\ Len(claimLog) < MaxClaimCalls
  /\ LET key == ThreadClaimKey(channelID) IN
       /\ claims' = ClaimUpdate(claims, key, ttl, now)
       /\ claimLog' = Append(claimLog, [key |-> key, at |-> now, ttl |-> ttl,
                                        prior |-> claims[key],
                                        after |-> claims'[key],
                                        result |-> ClaimResult(claims, key, now)])
  /\ UNCHANGED <<sideVars, mapperVars, env, now, processed, threads, pendingDMs, dmInfo, coordVars, mgrVars>>

\* MemoryStore.ClaimDM called by some client of the store
ClaimDM(userID, ttl) ==
  /\ Len(claimLog) < MaxClaimCalls
  /\ LET key == DMClaimKey(userID) IN
       /\ claims' = ClaimUpdate(claims, key, ttl, now)
       /\ claimLog' = Append(claimLog, [key |-> key, at |-> now, ttl |-> ttl,
                                        prior |-> claims[key],
                                        after |-> claims'[key],
                                        result |-> ClaimResult(claims, key, now)])
  /\ UNCHANGED <<sideVars, mapperVars, env, now, processed, threads, pendingDMs, dmInfo, coordVars, mgrVars>>

\* MemoryStore.Cleanup
Cleanup ==
  /\ threads' = CleanupThreads(threads, now)
  /\ dmInfo' = CleanupDMInfo(dmInfo, now)
  /\ processed' = CleanupProcessed(processed, now)
  /\ claims' = CleanupClaims(claims, now)
  /\ UNCHANGED <<sideVars, mapperVars, env, now, pendingDMs, coordVars, mgrVars, claimLog>>

NextStore ==
  \/ Tick(MaxStoreTime)
  \/ Cleanup
  \/ \E c \in ChannelIDs, ttl \in ClaimTTLs : ClaimThread(c, ttl)
  \/ \E u \in DiscordIDs, ttl \in ClaimTTLs : ClaimDM(u, ttl)

InitStore ==
  /\ Init
  /\ env = [channels |-> {}, delay |-> 0, inGuild |-> {}, failing |-> {}]
  /\ sources = NoSources

SpecStore == InitStore /\ [][NextStore]_vars

\* ------------------------------------- dedup markers in the two Stores
\* the event keys the clients of the stores mark
StoreEvents == {e \in Events : e.URL = PRURL}

\* FidoStore.WasProcessed: the marker is there and its expiry is still ahead
FidoWasProcessed(eventKey) ==
  fidoEvents[eventKey] # NoTime /\ now < fidoEvents[eventKey]

\* FidoStore.Cleanup: drops the markers whose expiry has passed
CleanupFidoEvents(ev, t) ==
  [e \in Events |-> IF ev[e] # NoTime /\ t > ev[e] THEN NoTime ELSE ev[e]]

\* MarkProcessed(eventKey, ttl) called on both implementations: MemoryStore
\* records the time of the call, FidoStore the expiry
MarkProcessedCall(eventKey, ttl) ==
  /\ Len(claimLog) < MaxClaimCalls
  /\ processed' = [processed EXCEPT ![eventKey] = now]
  /\ fidoEvents' = [fidoEvents EXCEPT ![eventKey] = now + ttl]
  /\ claimLog' = Append(claimLog, [key |-> eventKey, at |-> now, ttl |-> ttl,
                                   prior |-> processed[eventKey],
                                   after |-> now, result |-> TRUE])
  /\ UNCHANGED <<extraVars, cancelled, waiter, mapperVars, env, now, threads, claims, pendingDMs, dmInfo,
                 coordVars, mgrVars>>

\* Cleanup called on both implementations
CleanupStores ==
  /\ threads' = CleanupThreads(threads, now)
  /\ dmInfo' = CleanupDMInfo(dmInfo, now)
  /\ processed' = CleanupProcessed(processed, now)
  /\ claims' = CleanupClaims(claims, now)
  /\ fidoEvents' = CleanupFidoEvents(fidoEvents, now)
  /\ UNCHANGED <<extraVars, cancelled, waiter, mapperVars, env, now, pendingDMs, coordVars, mgrVars,
                 claimLog>>

NextDedup ==
  \/ Tick(MaxStoreTime)
  \/ \E e \in StoreEvents, ttl \in ClaimTTLs : MarkProcessedCall(e, ttl)
  \/ CleanupStores

SpecDedup == InitStore /\ [][NextDedup]_vars

\* ----------------------------------------------------- Coordinator actions
\* Client.ResolveChannelID: a string that looks like an id (long and numeric;
\* here: one of the channel ids) is returned as it is; a name gives the id of
\* the channel of that name, or the name itself when there is none
LooksLikeID(name) == name \in ChannelIDs
ResolveChannelID(name) ==
  IF LooksLikeID(name) THEN name
  ELSE IF ChannelIDOf(name) \in env.channels THEN ChannelIDOf(name) ELSE name
\* DiscordClient.IsBotInChannel
IsBotInChannel(channelID) == channelID \in env.channels
\* DiscordClient.IsUserInGuild
IsUserInGuild(discordID) == discordID \in env.inGuild
\* ConfigManager.ReminderDMDelay
ReminderDMDelay == env.delay

\* the goroutine of ProcessEvent ends: wg.Done and the gate slot is released
FinishKeepsSlot(w, rec) ==
  /\ wk' = [wk EXCEPT ![w] = [rec EXCEPT !.pc = "done", !.doneAt = now]]
  /\ eventSem' = eventSem
  /\ wg' = wg - 1
Finish(w, rec) ==
  /\ wk' = [wk EXCEPT ![w] = [rec EXCEPT !.pc = "done", !.doneAt = now]]
  /\ eventSem' = eventSem - 1
  /\ wg' = wg - 1

\* the same event key was already marked processed by a finished worker, and
\* the dedup TTL has not elapsed since
ProcessedBefore(w, ev) ==
  \E v \in DOMAIN wk \ {w} :
    /\ wk[v].pc = "done"
    /\ wk[v].ev = ev
    /\ <<"MarkProcessed", "">> \in wk[v].calls
    /\ now - wk[v].doneAt <= eventDeduplicationTTL

\* Coordinator.ProcessEvent: a slot of the gate (eventSem) can be taken
SlotFreeAlways(sem) == TRUE
SlotFree(sem) == sem < maxConcurrentEvents

\* Coordinator.ProcessEvent: take a gate slot and dispatch a worker
ProcessEvent(ev) ==
  /\ dispatched < Cardinality(DOMAIN wk)
  /\ SlotFree(eventSem)
  /\ dispatched' = dispatched + 1
  /\ eventSem' = eventSem + 1
  /\ wg' = wg + 1
  /\ wk' = [wk EXCEPT ![dispatched + 1] = [IdleWorker EXCEPT !.pc = "start", !.ev = ev]]
  /\ UNCHANGED <<sideVars, mapperVars, env, now, storeVars, tagged, reloads, effects, queued, mgrVars, claimLog>>

\* Coordinator.processEventSync up to the channel loop: parse the URL, reload
\* on a config-repo event, deduplicate, analyse the PR
processEventSync(w, checkResp) ==
  /\ wk[w].pc = "start"
  /\ LET ev == wk[w].ev
         pr == ParsePRURL(ev.URL)
         seen == [wk[w] EXCEPT !.calls = @ \cup {<<"WasProcessed", "">>},
                               !.redo = ProcessedBefore(w, ev)]
         resp == IF checkResp.err THEN EmptyCheckResponse ELSE checkResp
     IN IF InvalidURL(pr) THEN
          /\ Finish(w, wk[w])
          /\ UNCHANGED reloads
        ELSE IF IsConfigRepo(pr.repo) THEN
          /\ reloads' = reloads + 1
          /\ Finish(w, wk[w])
        ELSE IF WasProcessed(ev) THEN
          /\ Finish(w, seen)
          /\ UNCHANGED reloads
        ELSE IF TurnErrorAborts(checkResp.err) THEN
          /\ Finish(w, [seen EXCEPT !.calls = @ \cup {<<"turn.Check", "">>,
                                                       <<"turn.Check failed", "">>}])
          /\ UNCHANGED reloads
        ELSE
          /\ wk' = [wk EXCEPT ![w] =
                     [seen EXCEPT !.pc = "channel", !.idx = 1,
                                  !.calls = @ \cup {<<"turn.Check", "">>}
                                              \cup (IF checkResp.err
                                                    THEN {<<"turn.Check failed", "">>} ELSE {}),
                                  !.prState = prStateOf(resp),
                                  !.users = resp.users]]
          /\ UNCHANGED <<eventSem, wg, reloads>>
  /\ UNCHANGED <<sideVars, mapperVars, env, now, storeVars, tagged, dispatched, effects, queued, mgrVars, claimLog>>

\* the channel loop of processEventSync moves on to the next channel, or to DMs
NextChannelSkipsRest(rec) ==
  [rec EXCEPT !.pc = "dm", !.idx = 0, !.exists = FALSE, !.info = NoThread]
NextChannel(rec) ==
  IF rec.idx < Len(repoChannels)
  THEN [rec EXCEPT !.pc = "channel", !.idx = @ + 1, !.exists = FALSE, !.info = NoThread]
  ELSE [rec EXCEPT !.pc = "dm", !.idx = 0, !.exists = FALSE, !.info = NoThread]

\* Store.Thread: the stored ThreadInfo; a read that fails is reported as
\* not found (FidoStore.Thread)
Thread(channelID) ==
  IF "Thread" \in env.failing THEN NoThread ELSE threads[channelID]

\* Coordinator.processChannel: resolve the channel, check the bot can post,
\* look the thread up in the store
processChannel(w) ==
  /\ wk[w].pc = "channel"
  /\ LET channelName == repoChannels[wk[w].idx] IN
     LET channelID == ResolveChannelID(channelName) IN
       IF channelID = channelName \/ ~IsBotInChannel(channelID) THEN
         wk' = [wk EXCEPT ![w] = NextChannel(wk[w])]
       ELSE
         wk' = [wk EXCEPT ![w] = [@ EXCEPT !.pc = "post",
                                           !.exists = Thread(channelID).found,
                                           !.info = Thread(channelID),
                                           !.found = IF threads[channelID].found
                                                     THEN @ \cup {channelID} ELSE @,
                                           !.calls = @ \cup {<<"Thread", channelID>>}]]
  /\ UNCHANGED <<sideVars, mapperVars, env, now, storeVars, tagged, dispatched, eventSem, wg, reloads,
                 effects, queued, mgrVars, claimLog>>

\* Coordinator.trackTaggedUsers: only real mentions ("<@id>") are tracked
trackTaggedUsersAll(users) == users
trackTaggedUsers(users) == {u \in users : Mention(u) # <<>> /\ Mention(u)[1] = "<"}

\* the ThreadInfo saved after a new message or thread was created
NewThreadInfoStaleIDs(forum, newID, prState, t) ==
  [ThreadID |-> IF forum THEN 1 ELSE 0, MessageID |-> 1, ChannelType |-> IF forum THEN "forum" ELSE "text",
   LastState |-> prState, UpdatedAt |-> t, found |-> TRUE]
NewThreadInfo(forum, newID, prState, t) ==
  [ThreadID |-> IF forum THEN newID ELSE 0, MessageID |-> newID,
   ChannelType |-> IF forum THEN "forum" ELSE "text",
   LastState |-> prState, UpdatedAt |-> t, found |-> TRUE]

\* the message and thread ids of a ThreadInfo
IDsOf(info) == [ThreadID |-> info.ThreadID, MessageID |-> info.MessageID]

\* Coordinator.processForumChannel / processTextChannel: update the remembered
\* message or thread, or create a new one; save the ThreadInfo; track the tags
postChannel(w) ==
  /\ wk[w].pc = "post"
  /\ LET rec == wk[w]
         channelID == ResolveChannelID(repoChannels[rec.idx])
         forum == IsForumChannel(channelID)
         hasOld == rec.exists /\ (IF forum THEN rec.info.ThreadID # 0 ELSE rec.info.MessageID # 0)
         ended == rec.prState \in {"merged", "closed"}
         newID == 10 * w + rec.idx
         updateOp == IF forum THEN "UpdateForumPost" ELSE "UpdateMessage"
         createOp == IF forum THEN "PostForumThread" ELSE "PostMessage"
         updateOK == updateOp \notin env.failing
         postOK == createOp \notin env.failing
         updated == [rec.info EXCEPT !.LastState = rec.prState, !.UpdatedAt = now]
         created == NewThreadInfo(forum, newID, rec.prState, now)
         eff(op, saved) ==
           [w |-> w, ch |-> channelID, op |-> op, exists |-> rec.exists,
            thread |-> IF op \in {"PostForumThread", "PostMessage"}
                       THEN newID ELSE rec.info.ThreadID,
            mentions |-> [u \in rec.users |-> Mention(u)],
            prState |-> rec.prState, old |-> IDsOf(rec.info), saved |-> IDsOf(saved)]
         tried == rec.calls \cup (IF hasOld THEN {<<updateOp, channelID>>} ELSE {})
                            \cup (IF hasOld /\ ~updateOK
                                  THEN {<<"update failed", channelID>>} ELSE {})
     IN   IF hasOld /\ updateOK THEN
            /\ effects' = effects
                 \cup {eff(updateOp, updated)}
                 \cup (IF forum /\ ended THEN {eff("ArchiveThread", updated)} ELSE {})
            /\ threads' = [threads EXCEPT ![channelID] = updated]
            /\ tagged' = tagged \cup trackTaggedUsers(rec.users)
            /\ wk' = [wk EXCEPT ![w] = NextChannel(
                        [rec EXCEPT !.calls = tried \cup {<<"SaveThread", channelID>>}])]
          ELSE IF postOK THEN
            /\ effects' = effects \cup {eff(createOp, created)}
            /\ threads' = [threads EXCEPT ![channelID] = created]
            /\ tagged' = tagged \cup trackTaggedUsers(rec.users)
            /\ wk' = [wk EXCEPT ![w] = NextChannel(
                        [rec EXCEPT !.calls = tried \cup {<<createOp, channelID>>,
                                                          <<"SaveThread", channelID>>}])]
          ELSE
            /\ wk' = [wk EXCEPT ![w] = NextChannel(
                        [rec EXCEPT !.calls = tried \cup {<<createOp, channelID>>,
                                                          <<"channel failed", channelID>>}])]
            /\ UNCHANGED <<effects, threads, tagged>>
  /\ UNCHANGED <<sideVars, mapperVars, env, now, processed, claims, pendingDMs, dmInfo, dispatched,
                 eventSem, wg, reloads, queued, mgrVars, claimLog>>

\* tagTracker.wasTagged
wasTagged(username) == username \in tagged

\* the send time computed by queueDMNotifications
SendAtIgnoringTag(t, isTagged, delay) == t
SendAtFor(t, isTagged, delay) == IF isTagged THEN t + delay ELSE t

\* queueDMNotifications: a configured delay of 0 disables the DMs
DMsDisabledNever(delay) == FALSE
DMsDisabled(delay) == delay = 0

\* MemoryStore.ListDMUsers: the users that have a stored DMInfo for the PR
ListDMUsers(prURL) == {u \in DiscordIDs : prURL = PRURL /\ dmInfo[u].found}

\* Coordinator.queueDMNotifications
queueDMNotifications(w) ==
  /\ wk[w].pc = "dm"
  /\ IF SkipsDMs(wk[w].prState) THEN
       UNCHANGED <<pendingDMs, queued>>
     ELSE
       LET delay == ReminderDMDelay
           targets == {u \in wk[w].users :
                           /\ DiscordID(u) # ""
                           /\ IsUserInGuild(DiscordID(u))
                           /\ ~DMsDisabled(delay)}
       IN   /\ pendingDMs' = pendingDMs \cup
                 { [ID |-> <<w, u>>, UserID |-> DiscordID(u), PRURL |-> PRURL,
                    SendAt |-> SendAtFor(now, wasTagged(u), delay),
                    ExpiresAt |-> NoTime, RetryCount |-> 0, GuildID |-> "g1",
                    CreatedAt |-> now] : u \in targets }
            /\ queued' = queued \cup
                 { [id |-> <<w, u>>, by |-> w, username |-> u, user |-> DiscordID(u), at |-> now,
                    wasTagged |-> wasTagged(u), delay |-> delay,
                    sendAt |-> SendAtFor(now, wasTagged(u), delay)] : u \in targets }
  /\ wk' = [wk EXCEPT ![w] = [@ EXCEPT !.pc = "mark",
              !.dmUsers = ListDMUsers(PRURL),
              !.calls = @ \cup {<<"queueDMNotifications", "">>}
                          \cup (IF SkipsDMs(wk[w].prState) THEN {}
                                ELSE {<<"DiscordID", u>> : u \in wk[w].users})
                          \cup {<<"QueuePendingDM", q.user>> :
                                  q \in {x \in queued' : x.by = w}}]]
  /\ UNCHANGED <<sideVars, mapperVars, env, now, processed, threads, claims, dmInfo, tagged, dispatched, eventSem,
                 wg, reloads, effects, mgrVars, claimLog>>

\* the last step of processEventSync: store.MarkProcessed, then the worker ends
MarkProcessed(w) ==
  /\ wk[w].pc = "mark"
  /\ processed' = [processed EXCEPT ![wk[w].ev] = now]
  /\ Finish(w, [wk[w] EXCEPT !.calls = @ \cup {<<"MarkProcessed", "">>}])
  /\ UNCHANGED <<sideVars, mapperVars, env, now, threads, claims, pendingDMs, dmInfo, tagged, dispatched, reloads,
                 effects, queued, mgrVars, claimLog>>

\* --------------------------------------------------- notification Manager
\* expires-at values a client of the store can put on a PendingDM at time t
ExpiryChoices(t) == {NoTime, t + 1} \cup (IF t >= 1 THEN {t - 1} ELSE {})

\* a fresh id for a PendingDM that a client other than the Coordinator queues
NewID == <<0, Cardinality({q \in queued : q.by = 0}) + 1>>

\* retry-count values a client of the store can put on a PendingDM
RetryChoices == {0, maxRetries}

\* MemoryStore.QueuePendingDM called by a client of the store other than the
\* Coordinator (any PendingDM can be queued through the Store interface)
QueuePendingDM(userID, guildID, expiresAt, retryCount) ==
  /\ Cardinality({q \in queued : q.by = 0}) < MaxQueued
  /\ pendingDMs' = pendingDMs \cup
       { [ID |-> NewID, UserID |-> userID, PRURL |-> PRURL, SendAt |-> now,
          ExpiresAt |-> expiresAt, RetryCount |-> retryCount, GuildID |-> guildID,
          CreatedAt |-> now] }
  /\ queued' = queued \cup
       { [id |-> NewID, by |-> 0, username |-> "", user |-> userID, at |-> now,
          wasTagged |-> FALSE, delay |-> 0, sendAt |-> now] }
  /\ UNCHANGED <<sideVars, mapperVars, env, now, processed, threads, claims, dmInfo, tagged, wk, dispatched,
                 eventSem, wg, reloads, effects, mgrVars, claimLog>>

\* the guilds a sender was registered for (Manager.RegisterGuild)
dmSenders == {"g1"}

\* MemoryStore.PendingDMs(before)
PendingDMs(before) == {dm \in pendingDMs : dm.SendAt <= before}

\* MemoryStore.RemovePendingDM(id)
RemovePendingDMKeeps(q, id) == q
RemovePendingDM(q, id) == {dm \in q : dm.ID # id}

\* Manager.run / Manager.processPendingDMs: on a tick of the ticker, fetch the
\* entries that are due
processPendingDMs(m) ==
  /\ mgr[m].pc = "idle"
  /\ mgr[m].lastSweep = NoTime \/ now - mgr[m].lastSweep >= checkInterval
  /\ LET dms == IF "PendingDMs" \notin env.failing THEN PendingDMs(now) ELSE {} IN
       mgr' = [mgr EXCEPT ![m] = [@ EXCEPT !.lastSweep = now,
                                           !.batch = dms,
                                           !.fetched = dms,
                                           !.pc = IF dms = {} THEN "idle" ELSE "sweep"]]
  /\ UNCHANGED <<sideVars, mapperVars, env, now, storeVars, coordVars, sends, attempts, claimLog>>

\* the rate limit of Manager.sendDM
RateLimited(lastTime, t) == lastTime # NoTime /\ t - lastTime < minDMInterval

\* the queue after Manager.sendDM returned an error for dm: processPendingDMs
\* logs the error and goes on to the next entry, the entry is left as it is
FailedEntryRetried(dm) == [dm EXCEPT !.RetryCount = @ + 1]
FailedEntry(dm) == dm

\* the entries of the sweep still to be processed after the entry dm, whether
\* or not sendDM or RemovePendingDM returned an error for it
AfterEntryStopsOnError(batch, dm, err) == IF err THEN {} ELSE batch \ {dm}
AfterEntry(batch, dm, err) == batch \ {dm}

\* one iteration of the loop of Manager.processPendingDMs: Manager.sendDM on
\* one fetched entry, then RemovePendingDM unless sendDM returned an error
sendDM(m, dm) ==
  /\ mgr[m].pc = "sweep"
  /\ dm \in mgr[m].batch
  /\ LET sendOK == "SendDM" \notin env.failing
         saveOK == "SaveDMInfo" \notin env.failing
         removeOK == "RemovePendingDM" \notin env.failing
         sent == ~RateLimited(mgr[m].lastDMTime[dm.UserID], now) /\ dm.GuildID \in dmSenders
         rest == AfterEntry(mgr[m].batch, dm, (sent /\ ~sendOK) \/ ~removeOK)
         after(rec) == [rec EXCEPT !.batch = rest,
                                   !.pc = IF rest = {} THEN "idle" ELSE "sweep"]
         channelID == "dm-chan"
         messageID == 100 + Cardinality(sends)
         attempt(outcome) ==
           [id |-> dm.ID, dm |-> dm, mgr |-> m, at |-> now, outcome |-> outcome,
            queuedBefore |-> dm \in pendingDMs,
            entryAfter |-> {d \in pendingDMs' : d.ID = dm.ID},
            lastAfter |-> mgr'[m].lastDMTime[dm.UserID],
            infoAfter |-> dmInfo'[dm.UserID],
            channelID |-> channelID, messageID |-> messageID]
     IN   IF RateLimited(mgr[m].lastDMTime[dm.UserID], now) \/ dm.GuildID \notin dmSenders THEN
            /\ pendingDMs' = IF removeOK THEN RemovePendingDM(pendingDMs, dm.ID) ELSE pendingDMs
            /\ mgr' = [mgr EXCEPT ![m] = after(@)]
            /\ UNCHANGED <<dmInfo, sends>>
            /\ attempts' = attempts \cup
                 {attempt(IF RateLimited(mgr[m].lastDMTime[dm.UserID], now)
                          THEN "rate-limited" ELSE "no-sender")}
          ELSE IF ~sendOK THEN
            /\ mgr' = [mgr EXCEPT ![m] = after(@)]
            /\ pendingDMs' = {IF d = dm THEN FailedEntry(d) ELSE d : d \in pendingDMs}
            /\ UNCHANGED <<dmInfo, sends>>
            /\ attempts' = attempts \cup {attempt("failed")}
          ELSE
            /\ sends' = sends \cup
                 { [id |-> dm.ID, user |-> dm.UserID, at |-> now, mgr |-> m,
                    hadInfo |-> dmInfo[dm.UserID].found,
                    expired |-> dm.ExpiresAt # NoTime /\ now > dm.ExpiresAt] }
            /\ mgr' = [mgr EXCEPT ![m] = after([@ EXCEPT !.lastDMTime[dm.UserID] = now])]
            /\ dmInfo' = IF saveOK
                         THEN [dmInfo EXCEPT ![dm.UserID] =
                                 [ChannelID |-> channelID, MessageID |-> messageID,
                                  SentAt |-> now, found |-> TRUE]]
                         ELSE dmInfo
            /\ pendingDMs' = IF removeOK THEN RemovePendingDM(pendingDMs, dm.ID) ELSE pendingDMs
            /\ attempts' = attempts \cup {attempt("sent")}
  /\ UNCHANGED <<sideVars, mapperVars, env, now, processed, threads, claims, coordVars, claimLog>>

\* the events the event stream can deliver next: the first delivery is "d1"
NextEvents == IF dispatched = 0 THEN {e \in Events : e.DeliveryID = "d1"} ELSE Events

\* the Coordinator on the shared store
Next ==
  \/ Tick(MaxTime)
  \/ \E ev \in NextEvents : ProcessEvent(ev)
  \/ \E w \in Workers, a \in AnalysisChoices : processEventSync(w, a)
  \/ \E w \in Workers : processChannel(w)
  \/ \E w \in Workers : postChannel(w)
  \/ \E w \in Workers : queueDMNotifications(w)
  \/ \E w \in Workers : MarkProcessed(w)

InitCoord ==
  /\ Init
  /\ env.failing \subseteq DiscordOps /\ env.inGuild = DiscordIDs
  /\ sources = NoSources

Spec == InitCoord /\ [][Next]_vars

\* the notification Managers (one per replica) draining the queue that
\* clients of the store fill
InitNotify ==
  /\ Init
  /\ env.channels = {} /\ env.delay = 1 /\ env.inGuild = DiscordIDs
  /\ env.failing \subseteq DeliveryOps
  /\ sources = NoSources

NextNotify ==
  \/ Tick(MaxTime)
  \/ \E u \in DiscordIDs, g \in GuildIDs, x \in ExpiryChoices(now), r \in RetryChoices :
       QueuePendingDM(u, g, x, r)
  \/ \E m \in Managers : processPendingDMs(m)
  \/ \E m \in Managers : \E dm \in mgr[m].batch : sendDM(m, dm)

SpecNotify == InitNotify /\ [][NextNotify]_vars

\* the whole pipeline: the Coordinator queues DMs for the events of one PR
\* and one Manager delivers them; no channel is reachable
NextPipeline ==
  \/ Tick(MaxTime)
  \/ \E ev \in {e \in NextEvents : e.URL = PRURL} : ProcessEvent(ev)
  \/ \E w \in Workers : processEventSync(w, OpenPR)
  \/ \E w \in Workers : processChannel(w)
  \/ \E w \in Workers : queueDMNotifications(w)
  \/ \E w \in Workers : MarkProcessed(w)
  \/ processPendingDMs(1)
  \/ \E dm \in mgr[1].batch : sendDM(1, dm)

SpecPipeline == InitNotify /\ [][NextPipeline]_vars

\* ----------------------------------------- the Coordinator on one PR
\* the internal entry the analysis can carry in its NextAction map next to
\* the users, and an analysis that carries it
SystemUser == "_system"
SystemPR == [EmptyCheckResponse EXCEPT !.workflowState = "ASSIGNED_WAITING_FOR_REVIEW",
                                       !.users = {SystemUser, "bob"}]

\* the Coordinator processing the events of one PR, turn.Check answering
\* with one of the given analyses
NextCoord(choices) ==
  \/ Tick(MaxTime)
  \/ \E ev \in {e \in NextEvents : e.URL = PRURL} : ProcessEvent(ev)
  \/ \E w \in Workers, a \in choices : processEventSync(w, a)
  \/ \E w \in Workers : processChannel(w)
  \/ \E w \in Workers : postChannel(w)
  \/ \E w \in Workers : queueDMNotifications(w)
  \/ \E w \in Workers : MarkProcessed(w)

\* no collaborator fails, the analysis carries the internal entry
InitSentinel ==
  /\ Init
  /\ env.failing = {} /\ env.inGuild = DiscordIDs
  /\ sources = NoSources
NextSentinel == NextCoord({SystemPR})
SpecSentinel == InitSentinel /\ [][NextSentinel]_vars

\* the reads of the store can fail, nothing else does
InitReadFailure ==
  /\ Init
  /\ env.failing \subseteq StoreReads /\ env.inGuild = DiscordIDs
  /\ sources = NoSources
NextReadFailure == NextCoord({OpenPR})
SpecReadFailure == InitReadFailure /\ [][NextReadFailure]_vars

\* the configuration names the first channel of the repo by its id and the
\* second by its name
ChannelsByID == <<"chan-general", "prs">>
InitByID ==
  /\ InitCore(Workers)
  /\ stateCall = NoStateCall /\ lookupCall = NoLookupCall /\ InitFido
  /\ repoChannels = ChannelsByID
  /\ env.failing = {} /\ env.inGuild = DiscordIDs
  /\ sources = NoSources
NextByID == NextCoord({OpenPR})
SpecByID == InitByID /\ [][NextByID]_vars

\* the Coordinator and one Manager over the life of a PR: it is open, DMs are
\* queued and delivered, then it is merged
NextClosed ==
  \/ Tick(MaxTime)
  \/ \E ev \in {e \in NextEvents : e.URL = PRURL} : ProcessEvent(ev)
  \/ \E w \in Workers, a \in {OpenPR, MergedPR} : processEventSync(w, a)
  \/ \E w \in Workers : processChannel(w)
  \/ \E w \in Workers : queueDMNotifications(w)
  \/ \E w \in Workers : MarkProcessed(w)
  \/ processPendingDMs(1)
  \/ \E dm \in mgr[1].batch : sendDM(1, dm)
InitClosed ==
  /\ InitNotify
  /\ env.failing = {}
SpecClosed == InitClosed /\ [][NextClosed]_vars


\* -------------------------------------------- the gate and Coordinator.Wait
\* enough workers to fill the gate after two of them have finished
GateWorkers == 1..(maxConcurrentEvents + 2)
\* the n-th event the stream delivers: malformed URLs (processEventSync
\* returns an error) alternate with config-repo events (it returns nil)
GateEvent(n) == [DeliveryID |-> "d1", URL |-> IF n % 2 = 1 THEN BadURL ELSE ConfigURL]

\* Coordinator.ProcessEvent called with a context that is already cancelled:
\* the select takes the ctx.Done case, or the slot when one is free
ProcessEventCancelled(ev) ==
  /\ dispatched < Cardinality(DOMAIN wk)
  /\ Cardinality(cancelled) < MaxCancelled
  /\ \/ /\ SlotFree(eventSem)
        /\ dispatched' = dispatched + 1
        /\ eventSem' = eventSem + 1
        /\ wg' = wg + 1
        /\ wk' = [wk EXCEPT ![dispatched + 1] = [IdleWorker EXCEPT !.pc = "start", !.ev = ev]]
     \/ UNCHANGED <<dispatched, eventSem, wg, wk>>
  /\ cancelled' = cancelled \cup
       { [ev |-> ev, slots |-> eventSem, slotsAfter |-> eventSem',
          wgBefore |-> wg, wgAfter |-> wg', workers |-> dispatched' - dispatched] }
  /\ UNCHANGED <<extraVars, waiter, fidoEvents, mapperVars, env, now, storeVars, tagged, reloads, effects,
                 queued, mgrVars, claimLog>>

NextGate ==
  \/ ProcessEvent(GateEvent(dispatched + 1))
  \/ ProcessEventCancelled(GateEvent(dispatched + 1))
  \/ \E w \in GateWorkers : processEventSync(w, OpenPR)

InitGate ==
  /\ InitState(GateWorkers)
  /\ env = [channels |-> {}, delay |-> 0, inGuild |-> {}, failing |-> {}]
  /\ sources = NoSources

SpecGate == InitGate /\ [][NextGate]_vars

\* sync.WaitGroup.Wait returns when the counter is zero
WaitDoneAlways(count) == TRUE
WaitDone(count) == count = 0

\* Coordinator.Wait is called: the workers dispatched so far are the ones of
\* the ProcessEvent calls that have returned
Wait ==
  /\ waiter.pc = "idle"
  /\ waiter' = [pc |-> "waiting", seen |-> {w \in DOMAIN wk : wk[w].pc # "idle"},
                pending |-> wg]
  /\ UNCHANGED <<extraVars, cancelled, fidoEvents, mapperVars, env, now, storeVars, coordVars, mgrVars,
                 claimLog>>

\* Coordinator.Wait returns
WaitReturn ==
  /\ waiter.pc = "waiting"
  /\ WaitDone(wg)
  /\ waiter' = [waiter EXCEPT !.pc = "returned"]
  /\ UNCHANGED <<extraVars, cancelled, fidoEvents, mapperVars, env, now, storeVars, coordVars, mgrVars,
                 claimLog>>

NextWait ==
  \/ \E ev \in NextEvents : ProcessEvent(ev)
  \/ \E w \in Workers, a \in AnalysisChoices : processEventSync(w, a)
  \/ \E w \in Workers : processChannel(w)
  \/ \E w \in Workers : postChannel(w)
  \/ \E w \in Workers : queueDMNotifications(w)
  \/ \E w \in Workers : MarkProcessed(w)
  \/ Wait
  \/ WaitReturn

InitWait ==
  /\ Init
  /\ env = [channels |-> {"chan-general"}, delay |-> 1, inGuild |-> DiscordIDs, failing |-> {}]
  /\ sources = NoSources

SpecWait == InitWait /\ [][NextWait]_vars

\* ------------------------------------------------------ Mapper actions
\* the log entry of a finished Mapper call
Lookup(op, c, u, hit, id, tiers, begun, beganAt, src) ==
  [op |-> op, caller |-> c, user |-> u, at |-> now, hit |-> hit, result |-> id,
   tiers |-> tiers, begun |-> begun, beganAt |-> beganAt, src |-> src]

\* Mapper.DiscordID up to the end of the tier lookups: a cache hit returns at
\* once; otherwise the tiers are read, outside the lock
DiscordIDBegin(c, u) ==
  /\ inflight[c].pc = "idle"
  /\ Len(lookups) + Cardinality({d \in Callers : inflight[d].pc # "idle"}) < MaxLookups
  /\ IF CacheHit(cache[u], now) THEN
       /\ lookups' = Append(lookups, Lookup("DiscordID", c, u, TRUE, cache[u].discordID,
                                            {}, Len(lookups), now, sources))
       /\ UNCHANGED inflight
     ELSE
       /\ inflight' = [inflight EXCEPT ![c] =
                         [pc |-> "resolved", user |-> u, res |-> Resolve(sources, u),
                          begun |-> Len(lookups), beganAt |-> now, src |-> sources]]
       /\ UNCHANGED lookups
  /\ UNCHANGED <<sideVars, env, now, storeVars, coordVars, mgrVars, claimLog, sources, cache>>

\* Mapper.DiscordID from cacheResult to the return
DiscordIDReturn(c) ==
  /\ inflight[c].pc = "resolved"
  /\ LET call == inflight[c] IN
       /\ cache' = IF call.res.cached
                   THEN [cache EXCEPT ![call.user] =
                           [present |-> TRUE, cachedAt |-> now, discordID |-> call.res.id]]
                   ELSE cache
       /\ lookups' = Append(lookups, Lookup("DiscordID", c, call.user, FALSE, call.res.id,
                                            call.res.tiers, call.begun, call.beganAt,
                                            call.src))
  /\ inflight' = [inflight EXCEPT ![c] = IdleCall]
  /\ UNCHANGED <<sideVars, env, now, storeVars, coordVars, mgrVars, claimLog, sources>>

\* Mapper.ClearCache
ClearCache ==
  /\ Len(lookups) + Cardinality({d \in Callers : inflight[d].pc # "idle"}) < MaxLookups
  /\ cache' = [u \in MapperUsers |-> NoEntry]
  /\ lookups' = Append(lookups, Lookup("ClearCache", 0, NoID, FALSE, NoID, {},
                                       Len(lookups), now, sources))
  /\ UNCHANGED <<sideVars, env, now, storeVars, coordVars, mgrVars, claimLog, sources, inflight>>

\* the configuration, the stored mappings or the guild directory change
SetSources(src) ==
  /\ Len(lookups) + Cardinality({d \in Callers : inflight[d].pc # "idle"}) < MaxLookups
  /\ Cardinality({i \in 1..Len(lookups) : lookups[i].op = "SetSources"}) < MaxChanges
  /\ src # sources
  /\ sources' = src
  /\ lookups' = Append(lookups, Lookup("SetSources", 0, NoID, FALSE, NoID, {},
                                       Len(lookups), now, src))
  /\ UNCHANGED <<sideVars, env, now, storeVars, coordVars, mgrVars, claimLog, cache, inflight>>

\* a long time passes: just under, or exactly, the cache duration
Elapse(d) ==
  /\ now + d <= cacheTTL + MaxTime
  /\ now' = now + d
  /\ UNCHANGED <<sideVars, mapperVars, env, storeVars, coordVars, mgrVars, claimLog>>

NextMapper ==
  \/ \E d \in {cacheTTL - 1, cacheTTL} : Elapse(d)
  \/ \E c \in Callers, u \in MapperUsers : DiscordIDBegin(c, u)
  \/ \E c \in Callers : DiscordIDReturn(c)
  \/ ClearCache
  \/ \E src \in Sources : SetSources(src)

InitMapper ==
  /\ Init
  /\ env = [channels |-> {}, delay |-> 0, inGuild |-> {}, failing |-> {}]

SpecMapper == InitMapper /\ [][NextMapper]_vars

\* ------------------------------------------------------ StateFromAnalysis
\* the inputs a call is made with: every combination of the flags, a count of
\* failing checks, and every workflow state the function names, one it does
\* not name and the empty one
MaxChecksFailing == 1
WorkflowStates ==
  {"IN_DRAFT", "NEWLY_PUBLISHED", "PUBLISHED_WAITING_FOR_TESTS", "TESTED_WAITING_FOR_FIXES",
   "REVIEWED_NEEDS_REFINEMENT", "APPROVED_WAITING_FOR_MERGE", "TESTED_WAITING_FOR_ASSIGNMENT",
   "ASSIGNED_WAITING_FOR_REVIEW", "REFINED_WAITING_FOR_APPROVAL", "SOMETHING_ELSE", ""}
StateCalls ==
  [merged : BOOLEAN, closed : BOOLEAN, draft : BOOLEAN, workflowState : WorkflowStates,
   checksFailing : 0..MaxChecksFailing, mergeConflict : BOOLEAN, out : {""}]

\* the call of StateFromAnalysis on the chosen inputs
CallStateFromAnalysis ==
  /\ stateCall.out = ""
  /\ stateCall' = [stateCall EXCEPT !.out =
                     StateFromAnalysis(stateCall.merged, stateCall.closed, stateCall.draft,
                                       stateCall.workflowState, stateCall.checksFailing,
                                       stateCall.mergeConflict)]
  /\ UNCHANGED <<lookupCall, fidoVars, repoChannels, cancelled, waiter, fidoEvents, mapperVars, env, now, storeVars,
                 coordVars, mgrVars, claimLog>>

NextState == CallStateFromAnalysis

InitStateCall ==
  /\ InitCore(Workers)
  /\ env = [channels |-> {}, delay |-> 0, inGuild |-> {}, failing |-> {}]
  /\ sources = NoSources
  /\ stateCall \in StateCalls
  /\ lookupCall = NoLookupCall
  /\ InitFido
  /\ repoChannels = ChannelNames

SpecState == InitStateCall /\ [][NextState]_vars

\* ------------------------------------------------- the guild directory
\* names are sequences of characters; the members of the guild are a list of
\* (id, username, display name, nickname)
MaxMembers == 2
ToLowerChar(c) == IF c = "A" THEN "a" ELSE IF c = "B" THEN "b" ELSE c
ToLower(str) == [i \in 1..Len(str) |-> ToLowerChar(str[i])]
EqualFold(x, y) == ToLower(x) = ToLower(y)
HasPrefix(str, prefix) ==
  Len(prefix) <= Len(str) /\ SubSeq(str, 1, Len(prefix)) = prefix
MemberNames == {<<"a">>, <<"A">>, <<"a", "b">>, <<"A", "b">>}
OptionalNames == {<<>>, <<"a">>, <<"a", "B">>}
MemberLists ==
  UNION { [1..n -> [Username : MemberNames, GlobalName : OptionalNames, Nick : OptionalNames]] :
            n \in 0..MaxMembers }
\* the id of the i-th member of the list
MemberID(i) == IF i = 1 THEN "m1" ELSE IF i = 2 THEN "m2" ELSE "m3"

\* Client.LookupUserByUsername on an empty cache: the first member whose
\* username is equal to the name asked for, "" when there is none
ClientLookupUserByUsername(username, members) ==
  LET hits == {i \in 1..Len(members) : members[i].Username = username}
  IN  IF hits = {} THEN "" ELSE MemberID(CHOOSE i \in hits : \A j \in hits : i <= j)

\* a call of Client.LookupUserByUsername
CallLookupUserByUsername ==
  /\ ~lookupCall.done
  /\ lookupCall' = [lookupCall EXCEPT
                      !.out = ClientLookupUserByUsername(lookupCall.username, lookupCall.members),
                      !.done = TRUE]
  /\ UNCHANGED <<stateCall, fidoVars, repoChannels, cancelled, waiter, fidoEvents, mapperVars, env, now, storeVars,
                 coordVars, mgrVars, claimLog>>

NextDirectory == CallLookupUserByUsername

InitDirectory ==
  /\ InitCore(Workers)
  /\ env = [channels |-> {}, delay |-> 0, inGuild |-> {}, failing |-> {}]
  /\ sources = NoSources
  /\ stateCall = NoStateCall
  /\ InitFido
  /\ repoChannels = ChannelNames
  /\ lookupCall \in [username : MemberNames, members : MemberLists, out : {""}, done : {FALSE}]

SpecDirectory == InitDirectory /\ [][NextDirectory]_vars

\* ------------------------------------- the pending-DM queue of FidoStore
\* FidoStore keeps all PendingDMs in one value under pendingQueueKey. Each
\* operation reads the value, changes its copy and writes the copy back;
\* pendingMu serialises the operations of one instance only.
OtherVars ==
  <<stateCall, lookupCall, repoChannels, cancelled, waiter, fidoEvents, mapperVars, env, now, storeVars,
    coordVars, mgrVars, claimLog>>

\* FidoStore.QueuePendingDM up to the write: lock, Get, add the entry
FidoQueueGet(i, id) ==
  /\ inst[i].pc = "idle"
  /\ id \notin queueLog.begun
  /\ inst' = [inst EXCEPT ![i] = [pc |-> "set", op |-> "queue", id |-> id,
                                  queue |-> fidoQueue \cup {id}]]
  /\ queueLog' = [queueLog EXCEPT !.begun = @ \cup {id}]
  /\ UNCHANGED <<fidoQueue, OtherVars>>

\* FidoStore.RemovePendingDM up to the write: lock, Get, delete the entry
\* (called for an entry whose QueuePendingDM has returned)
FidoRemoveGet(i, id) ==
  /\ inst[i].pc = "idle"
  /\ id \in queueLog.queued /\ id \notin queueLog.removing
  /\ inst' = [inst EXCEPT ![i] = [pc |-> "set", op |-> "remove", id |-> id,
                                  queue |-> fidoQueue \ {id}]]
  /\ queueLog' = [queueLog EXCEPT !.removing = @ \cup {id}]
  /\ UNCHANGED <<fidoQueue, OtherVars>>

\* the end of both operations: Set writes the copy back, unlock, return
FidoSet(i) ==
  /\ inst[i].pc = "set"
  /\ fidoQueue' = inst[i].queue
  /\ inst' = [inst EXCEPT ![i] = IdleInstance]
  /\ queueLog' = IF inst[i].op = "queue"
                 THEN [queueLog EXCEPT !.queued = @ \cup {inst[i].id}]
                 ELSE [queueLog EXCEPT !.removed = @ \cup {inst[i].id}]
  /\ UNCHANGED OtherVars

NextQueue ==
  \/ \E i \in Instances, id \in PendingIDs : FidoQueueGet(i, id)
  \/ \E i \in Instances, id \in PendingIDs : FidoRemoveGet(i, id)
  \/ \E i \in Instances : FidoSet(i)

SpecQueue == InitStore /\ [][NextQueue]_vars

\* ------------------------------------------------------------ claim-locks
\* call i finds a claim on its key that an earlier call was granted and whose
\* ttl has not elapsed
GrantedBefore(i) ==
  {j \in 1..(i - 1) : claimLog[j].key = claimLog[i].key /\ claimLog[j].result}
HeldAtCall(i) ==
  \E j \in GrantedBefore(i) : claimLog[i].at < claimLog[j].at + claimLog[j].ttl

\* C3: of the ClaimThread calls made on a key while no unexpired claim exists
\* exactly one (the first) returns true; every call on a key that holds an
\* unexpired claim returns false and leaves the claim's expiry unchanged.
C3_ExactlyOneClaim ==
  \A i \in 1..Len(claimLog) :
    /\ claimLog[i].result = ~HeldAtCall(i)
    /\ ~claimLog[i].result => claimLog[i].after = claimLog[i].prior
    /\ \A j \in GrantedBefore(i) :
         claimLog[i].result => claimLog[i].at >= claimLog[j].at + claimLog[j].ttl

\* two calls on one thread key at the same instant: the first wins, the second loses
C3_Witness ==
  \E i, j \in 1..Len(claimLog) :
    /\ i < j
    /\ claimLog[i].key = claimLog[j].key
    /\ claimLog[i].key[1] = "claim:thread"
    /\ claimLog[i].at = claimLog[j].at
    /\ claimLog[i].result
    /\ ~claimLog[j].result

\* C4: a claim cannot block forever: a ClaimThread or ClaimDM call made once
\* the ttl of every earlier claim on its key has elapsed returns true.
C4_ClaimExpires ==
  \A i \in 1..Len(claimLog) :
    (/\ GrantedBefore(i) # {}
     /\ \A j \in GrantedBefore(i) : claimLog[i].at >= claimLog[j].at + claimLog[j].ttl)
    => (claimLog[i].result /\ claimLog[i].after = claimLog[i].at + claimLog[i].ttl)

\* a key is claimed, its ttl elapses without any release, and it is claimed again
C4_Witness ==
  \E i, j \in 1..Len(claimLog) :
    /\ i < j
    /\ claimLog[i].key = claimLog[j].key
    /\ claimLog[i].result
    /\ claimLog[j].at >= claimLog[i].at + claimLog[i].ttl
    /\ claimLog[j].result
    /\ claimLog[j].prior = claimLog[i].after

\* ------------------------------------------------------- event deduplication
\* worker w posted or updated something in a channel, or queued a DM
Acted(w) == (\E e \in effects : e.w = w) \/ (\E q \in queued : q.by = w)

\* C1: once an event has been fully processed (its marker written), processing
\* the same (delivery-id, URL) again within the dedup TTL is a no-op: no post,
\* no update, no DM queued, nothing written to the store.
C1_DedupNoOp ==
  \A w \in Workers :
    wk[w].redo =>
      /\ ~Acted(w)
      /\ wk[w].pc = "done"
      /\ wk[w].calls = {<<"WasProcessed", "">>}

\* the first processing posted in a channel and the second one was skipped
C1_Witness ==
  \E v, w \in Workers :
    /\ v # w
    /\ wk[w].redo /\ wk[w].pc = "done"
    /\ wk[v].ev = wk[w].ev
    /\ \E e \in effects : e.w = v /\ e.op = "PostMessage"

\* C2: of two workers handed the same (delivery-id, URL) event, at most one
\* performs channel posts/updates and DM queueing for it.
C2_AtMostOneWorkerActs ==
  \A v, w \in Workers :
    (v # w /\ wk[v].pc # "idle" /\ wk[w].pc # "idle" /\ wk[v].ev = wk[w].ev)
      => ~(Acted(v) /\ Acted(w))

\* -------------------------------------------------------- thread creation
Creations == {"PostMessage", "PostForumThread"}

\* C5: every PostMessage / PostForumThread of a handler for a (PR, channel) is
\* preceded in that handler by a ClaimThread call on that key.
C5_CreationNeedsClaim ==
  \A e \in effects :
    e.op \in Creations => <<"ClaimThread", e.ch>> \in wk[e.w].calls

\* C6: two events with different delivery ids for the same PR, processed while
\* no ThreadInfo exists for (PR, channel), create at most one message or
\* thread in that channel.
C6_AtMostOneCreation ==
  \A e1, e2 \in effects :
    (/\ e1.op \in Creations /\ e2.op \in Creations
     /\ e1.ch = e2.ch
     /\ ~e1.exists /\ ~e2.exists
     /\ wk[e1.w].ev.URL = wk[e2.w].ev.URL
     /\ wk[e1.w].ev.DeliveryID # wk[e2.w].ev.DeliveryID)
    => e1.w = e2.w

\* ------------------------------------------------------------ DM delivery
\* C7: each PendingDM leads to at most one successful SendDM, over all sweeps
\* and all Manager replicas.
C7_AtMostOneSendPerPendingDM ==
  \A s1, s2 \in sends : s1.id = s2.id => s1 = s2

\* C8: at most one DM message is created per (user, PR): once a DMInfo exists
\* for (user, PR), the DM queued by a later event (another delivery id) for
\* that PR is not delivered to that user by SendDM.
C8_OneDMPerUserAndPR ==
  \A s1, s2 \in sends :
    (/\ s1.user = s2.user
     /\ s1.id[1] \in Workers /\ s2.id[1] \in Workers
     /\ wk[s1.id[1]].ev.DeliveryID # wk[s2.id[1]].ev.DeliveryID
     /\ s2.hadInfo)
    => s1.id = s2.id

\* C9: a DM the Coordinator queues has send-at = queue time + the configured
\* delay if the user was tagged in a channel for the PR, and send-at = queue
\* time if the user was not tagged.
C9_SendAtFollowsTag ==
  \A q \in queued :
    q.by # 0 =>
      /\ q.sendAt = (IF q.wasTagged THEN q.at + q.delay ELSE q.at)
      /\ \A dm \in pendingDMs :
           dm.ID = q.id => (dm.SendAt = q.sendAt /\ dm.CreatedAt = q.at)

\* a DM queued for a user that was tagged, delayed by the configured minutes
C9_Witness ==
  \E q \in queued, dm \in pendingDMs :
    /\ q.by # 0 /\ dm.ID = q.id
    /\ q.wasTagged /\ q.delay > 0
    /\ dm.SendAt = dm.CreatedAt + q.delay

\* C10: a due PendingDM whose expires-at is in the past is not delivered.
C10_ExpiredNotSent ==
  \A s \in sends : ~s.expired

\* ------------------------------------------------- the sweep of the Manager
\* C11: a due PendingDM whose retry-count has reached max-retries is removed
\* by the sweep without SendDM being called for it.
C11_ExhaustedNotSent ==
  \A a \in attempts :
    a.dm.RetryCount >= maxRetries =>
      /\ a.outcome \notin {"sent", "failed"}
      /\ "RemovePendingDM" \notin env.failing => a.entryAfter = {}

\* C12: a due PendingDM of a user whose last DM was sent less than the minimum
\* interval ago is not sent and stays in the queue unchanged.
C12_RateLimitedStaysQueued ==
  \A a \in attempts :
    (a.outcome = "rate-limited" /\ a.queuedBefore) => a.entryAfter = {a.dm}

\* C13: when SendDM fails, the entry stays in the queue with its retry-count
\* increased by exactly 1 and its send-at moved to after the attempt.
C13_FailureSchedulesRetry ==
  \A a \in attempts :
    (a.outcome = "failed" /\ a.queuedBefore) =>
      \E d \in a.entryAfter :
        d.RetryCount = a.dm.RetryCount + 1 /\ d.SendAt > a.at

\* C14: when SendDM succeeds, the sweep records the user's last-DM time, saves
\* a DMInfo for (user, PR) with the returned channel and message ids (when
\* SaveDMInfo succeeds) and removes the entry from the queue, also when
\* SaveDMInfo fails (as long as RemovePendingDM itself succeeds).
C14_SuccessBookkeeping ==
  \A a \in attempts :
    a.outcome = "sent" =>
      /\ a.lastAfter = a.at
      /\ "SaveDMInfo" \notin env.failing =>
           a.infoAfter = [ChannelID |-> a.channelID, MessageID |-> a.messageID,
                          SentAt |-> a.at, found |-> TRUE]
      /\ "RemovePendingDM" \notin env.failing => a.entryAfter = {}

\* a queued entry was sent, SaveDMInfo failed, and the entry was removed
C14_Witness ==
  \E a \in attempts :
    /\ a.outcome = "sent" /\ a.queuedBefore
    /\ "SaveDMInfo" \in env.failing
    /\ ~a.infoAfter.found
    /\ a.entryAfter = {}
    /\ a.lastAfter = a.at

LoopDone(w) == wk[w].pc \in {"dm", "mark", "done"} /\ wk[w].prState # ""

\* worker w made an ArchiveThread call on the forum thread it found in ch
Archived(w, ch) ==
  \E e \in effects :
    e.w = w /\ e.ch = ch /\ e.op = "ArchiveThread" /\ e.thread # 0

C17_ConfigEventOnlyReloads ==
  /\ \A w \in Workers :
       (wk[w].pc = "done" /\ wk[w].ev.URL = ConfigURL) =>
         /\ ~Acted(w)
         /\ wk[w].calls = {}
         /\ processed[wk[w].ev] = NoTime
  /\ reloads = Cardinality({w \in Workers : wk[w].pc = "done" /\ wk[w].ev.URL = ConfigURL})

\* a config-repo event was handled: one reload, while channels are reachable
C17_Witness ==
  \E w \in Workers :
    /\ wk[w].pc = "done" /\ wk[w].ev.URL = ConfigURL
    /\ reloads >= 1
    /\ env.channels # {}

\* ------------------------------------------------------- unresolved users
ChannelWrites == {"PostMessage", "PostForumThread", "UpdateMessage", "UpdateForumPost"}

\* C18: a required-action username that the mapper does not resolve appears in
\* the channel post as its plain username, not as a chat mention, is not
\* tracked as tagged, and no PendingDM is queued for that user.
C18_UnresolvedUserPlainNoDM ==
  /\ \A e \in effects :
       e.op \in ChannelWrites =>
         \A u \in DOMAIN e.mentions : DiscordID(u) = "" => e.mentions[u] = <<u>>
  /\ \A q \in queued : q.by # 0 => DiscordID(q.username) # ""
  /\ \A u \in tagged : DiscordID(u) # ""

\* a post named bob by mention and carol (unresolved) in plain text, and the
\* handler queued a DM for bob only
C18_Witness ==
  \E e \in effects :
    /\ e.op = "PostMessage"
    /\ "carol" \in DOMAIN e.mentions /\ e.mentions["carol"] = <<"carol">>
    /\ "bob" \in DOMAIN e.mentions /\ e.mentions["bob"][1] = "<"
    /\ wk[e.w].pc = "done"
    /\ \E q \in queued : q.by = e.w /\ q.username = "bob"
    /\ \A q \in queued : q.by = e.w => q.username # "carol"
\* ------------------------------------------------------ identity mapping
\* the finished DiscordID calls in the log
DiscordIDCalls == {i \in 1..Len(lookups) : lookups[i].op = "DiscordID"}
\* at the start of the call the username had an id in the configuration and a
\* different id in the directory
InBoth(e) ==
  /\ IsNumericID(DiscordUserID(e.src, e.user))
  /\ LookupUserByUsername(e.src, e.user) \notin {NoID, DiscordUserID(e.src, e.user)}

\* C19 as stated: every DiscordID call for a username that is in the
\* configuration and, with a different id, in the directory returns the
\* configured id.
C19_ConfigWins ==
  \A i \in DiscordIDCalls :
    InBoth(lookups[i]) => lookups[i].result = DiscordUserID(lookups[i].src, lookups[i].user)

\* C19 amended: a DiscordID call that is not answered from the cache returns
\* the configured id for a username that is in the configuration and, with a
\* different id, in the directory; a configured Discord username that the
\* directory resolves wins over the directory entry of the GitHub username too.
C19_ConfigWinsOnResolve ==
  \A i \in DiscordIDCalls :
    LET e == lookups[i]
        configValue == DiscordUserID(e.src, e.user)
    IN  ~e.hit =>
          /\ InBoth(e) => e.result = configValue
          /\ (configValue # NoID /\ ~IsNumericID(configValue)
              /\ LookupUserByUsername(e.src, configValue) # NoID)
               => e.result = LookupUserByUsername(e.src, configValue)

C19_Witness ==
  \E i \in DiscordIDCalls :
    /\ ~lookups[i].hit
    /\ InBoth(lookups[i])
    /\ lookups[i].result = ConfigID
    /\ LookupUserByUsername(lookups[i].src, lookups[i].user) = DirectoryID

\* a DiscordID call that resolved the username through the tiers
Resolved(i) ==
  i \in DiscordIDCalls /\ ~lookups[i].hit /\ lookups[i].result # NoID
\* ClearCache returned after call i returned and before call j started
ClearedBetween(i, j) ==
  \E k \in (i + 1)..lookups[j].begun : lookups[k].op = "ClearCache"

\* C20: after a DiscordID call has resolved u, every DiscordID(u) that starts
\* later, within the cache duration and with no ClearCache in between, returns
\* the same id and consults no tier, whatever the sources hold by then; the
\* first DiscordID call that starts after a ClearCache returns what the
\* sources hold when it starts.
C20_CachedUntilCleared ==
  /\ \A i, j \in DiscordIDCalls :
       ( /\ Resolved(i)
         /\ lookups[j].user = lookups[i].user
         /\ lookups[j].begun >= i
         /\ ~ClearedBetween(i, j)
         /\ lookups[j].beganAt - lookups[i].at < cacheTTL )
       => lookups[j].result = lookups[i].result /\ lookups[j].tiers = {}
  /\ \A k \in 1..Len(lookups), j \in DiscordIDCalls :
       ( /\ lookups[k].op = "ClearCache"
         /\ lookups[j].begun >= k
         /\ \A m \in DiscordIDCalls : ~(k < m /\ m <= lookups[j].begun) )
       => lookups[j].result = Resolve(lookups[j].src, lookups[j].user).id


\* ------------------------------------------------- the concurrency gate
\* the workers that were dispatched and have not finished
InFlight == {w \in DOMAIN wk : wk[w].pc \notin {"idle", "done"}}

C26_CancelledAtFullGateDrops ==
  \A c \in cancelled :
    c.slots = maxConcurrentEvents =>
      c.workers = 0 /\ c.slotsAfter = c.slots /\ c.wgAfter = c.wgBefore

C26_Witness ==
  \E c \in cancelled :
    /\ c.slots = maxConcurrentEvents /\ c.workers = 0
    /\ eventSem = maxConcurrentEvents
    /\ Cardinality(InFlight) = maxConcurrentEvents

\* C22: when Wait has returned, every worker dispatched by a ProcessEvent call
\* that returned before Wait was called has finished.
C22_WaitReturnsAfterWorkers ==
  waiter.pc = "returned" => \A w \in waiter.seen : wk[w].pc = "done"

\* Wait was called while two workers were still running, and has returned
C22_Witness ==
  /\ waiter.pc = "returned"
  /\ waiter.pending = 2
  /\ Cardinality(waiter.seen) = 2

\* ------------------------------------------------- dedup markers and ttl
\* the MarkProcessed calls made on an event key, and the last of them
MarksOf(e) == {i \in 1..Len(claimLog) : claimLog[i].key = e}
LastMark(e) == claimLog[CHOOSE i \in MarksOf(e) : \A j \in MarksOf(e) : j <= i]

\* C23: after MarkProcessed(key, ttl), WasProcessed(key) is true until ttl
\* has elapsed and false from then on, in both Store implementations and
\* whether or not Cleanup has run.
C23_MarkerLivesForTTL ==
  \A e \in StoreEvents :
    MarksOf(e) # {} =>
      /\ WasProcessed(e) = (now < LastMark(e).at + LastMark(e).ttl)
      /\ FidoWasProcessed(e) = (now < LastMark(e).at + LastMark(e).ttl)

\* C24: after the same sequence of operations the in-memory store and the
\* durable store answer WasProcessed alike for every event key.
C24_StoresAgree ==
  \A e \in StoreEvents : WasProcessed(e) = FidoWasProcessed(e)

\* ------------------------------------------------------ bounded retries
\* the delivery attempts on a PendingDM that ended with an error of SendDM
FailedAttempts(id) == {a \in attempts : a.id = id /\ a.outcome = "failed"}

\* C25: a PendingDM whose delivery fails every time is given up: queued with
\* retry-count 0, it is attempted at most maxRetries times, and after the
\* last of these attempts it is no longer in the queue.
C25_FailingDMDropped ==
  \A q \in queued :
    /\ \A a \in FailedAttempts(q.id) :
         a.dm.RetryCount = 0 => Cardinality(FailedAttempts(q.id)) <= maxRetries
    /\ Cardinality(FailedAttempts(q.id)) >= maxRetries =>
         \A dm \in pendingDMs : dm.ID # q.id

\* ------------------------------------------------- failures in an event
\* the call that creates a message or thread in the channel
CreateOpOf(ch) == IF IsForumChannel(ch) THEN "PostForumThread" ELSE "PostMessage"
\* worker w wrote to channel ch
WroteTo(w, ch) == \E e \in effects : e.w = w /\ e.ch = ch /\ e.op \in ChannelWrites
\* processChannel returned an error to worker w for channel ch
ChannelFailed(w, ch) == <<"channel failed", ch>> \in wk[w].calls

\* C27: when processing one destination channel of an event fails, every
\* other destination channel is still processed (looked up and written to),
\* the DM-queueing step still runs (and queues the DMs that are due), and the
\* event is still marked processed.
C27_ChannelFailureIsolated ==
  \A w \in Workers :
    (wk[w].pc = "done" /\ \E ch \in ChannelIDs : ChannelFailed(w, ch)) =>
      /\ \A ch \in env.channels :
           /\ <<"Thread", ch>> \in wk[w].calls
           /\ ~ChannelFailed(w, ch) => WroteTo(w, ch)
      /\ <<"queueDMNotifications", "">> \in wk[w].calls
      /\ (~SkipsDMs(wk[w].prState) /\ ReminderDMDelay # 0) =>
           \A u \in wk[w].users :
             (DiscordID(u) # "" /\ IsUserInGuild(DiscordID(u))) =>
               \E q \in queued : q.by = w /\ q.username = u
      /\ <<"MarkProcessed", "">> \in wk[w].calls
      /\ processed[wk[w].ev] # NoTime

\* a worker failed in the text channel, wrote to the forum channel, queued a
\* DM and marked the event
C27_Witness ==
  \E w \in Workers :
    /\ wk[w].pc = "done"
    /\ ChannelFailed(w, "chan-general")
    /\ WroteTo(w, "chan-prs")
    /\ \E q \in queued : q.by = w
    /\ <<"MarkProcessed", "">> \in wk[w].calls

\* C28: when turn.Check fails the event is processed with the empty analysis:
\* state unknown and no action users, so every reachable channel still gets
\* its post (unless the post itself fails), no DM is queued, and the event is
\* marked processed.
C28_AnalysisFailureDegrades ==
  \A w \in Workers :
    <<"turn.Check failed", "">> \in wk[w].calls =>
      /\ wk[w].prState = "unknown" /\ wk[w].users = {}
      /\ \A q \in queued : q.by # w
      /\ wk[w].pc = "done" =>
           /\ <<"MarkProcessed", "">> \in wk[w].calls
           /\ \A ch \in env.channels :
                ~ChannelFailed(w, ch) =>
                  \E e \in effects :
                    /\ e.w = w /\ e.ch = ch /\ e.op \in ChannelWrites
                    /\ e.prState = "unknown" /\ DOMAIN e.mentions = {}

C28_Witness ==
  \E w \in Workers, e \in effects :
    /\ <<"turn.Check failed", "">> \in wk[w].calls
    /\ wk[w].pc = "done"
    /\ e.w = w /\ e.op = "PostMessage" /\ e.prState = "unknown"
    /\ ReminderDMDelay # 0

\* C29: the step that handles an event whose URL is not a PR reference only
\* ends the worker: no reload, no dedup marker, no store write, no post, no
\* DM, no tag, and no other worker is touched.
C29_BadURLNoEffect ==
  [][\A w \in Workers :
       (wk[w].pc = "start" /\ wk[w].ev.URL = BadURL /\ wk'[w] # wk[w]) =>
         /\ wk'[w].pc = "done" /\ wk'[w].calls = {}
         /\ UNCHANGED <<storeVars, tagged, reloads, effects, queued>>
         /\ \A v \in Workers \ {w} : wk'[v] = wk[v]]_vars

\* an event with a malformed URL ended with nothing done, while the PR event
\* delivered with it posted to a channel
C29_Witness ==
  \E w, v \in Workers :
    /\ wk[w].pc = "done" /\ wk[w].ev.URL = BadURL /\ wk[w].calls = {} /\ ~Acted(w)
    /\ wk[v].pc = "done" /\ wk[v].ev.URL = PRURL /\ Acted(v)
    /\ processed[wk[w].ev] = NoTime

\* C30: when updating the remembered message or thread of (PR, channel) fails,
\* the handler goes on to create a new one in that channel and, when it is
\* created, saves a ThreadInfo with the new ids in place of the old one; the
\* event itself does not fail (it is marked processed).
C30_UpdateFailureCreatesNew ==
  \A w \in Workers, ch \in ChannelIDs :
    <<"update failed", ch>> \in wk[w].calls =>
      /\ <<CreateOpOf(ch), ch>> \in wk[w].calls
      /\ CreateOpOf(ch) \notin env.failing =>
           \E e \in effects :
             /\ e.w = w /\ e.ch = ch /\ e.op = CreateOpOf(ch)
             /\ e.saved.MessageID = e.thread
             /\ IsForumChannel(ch) => e.saved.ThreadID = e.thread
             /\ e.saved # e.old
      /\ wk[w].pc = "done" => <<"MarkProcessed", "">> \in wk[w].calls

C30_Witness ==
  \E w \in Workers, e \in effects :
    /\ <<"update failed", e.ch>> \in wk[w].calls
    /\ e.w = w /\ e.exists /\ e.op = "PostForumThread"
    /\ e.saved.ThreadID = e.thread /\ e.saved # e.old
    /\ threads[e.ch].ThreadID = e.thread

\* ---------------------------------------------------------- disabled DMs
\* C31: when the configured DM delay is 0, the DM step of an event queues no
\* PendingDM, for no user of the event.
C31_ZeroDelayQueuesNothing ==
  ReminderDMDelay = 0 =>
    /\ queued = {} /\ pendingDMs = {}
    /\ \A w \in Workers, u \in DiscordIDs : <<"QueuePendingDM", u>> \notin wk[w].calls

\* with delay 0 an open PR with a resolvable reviewer who is in the guild was
\* posted and went through the DM step
C31_Witness ==
  \E w \in Workers :
    /\ ReminderDMDelay = 0
    /\ wk[w].pc = "done" /\ <<"queueDMNotifications", "">> \in wk[w].calls
    /\ ~SkipsDMs(wk[w].prState)
    /\ \E u \in wk[w].users : DiscordID(u) # "" /\ IsUserInGuild(DiscordID(u))
    /\ Acted(w)

\* ---------------------------------------------------------- the tag tracker
\* C33: a user is marked as tagged for the PR only if a channel message or
\* thread for the PR was created or updated successfully with a real platform
\* mention ("<@id>") of that user in it; failed posts, skipped channels and
\* plain-text mentions mark nobody.
C33_TaggedOnlyByPostedMention ==
  \A u \in tagged :
    \E e \in effects :
      /\ e.op \in ChannelWrites
      /\ u \in DOMAIN e.mentions
      /\ e.mentions[u] = <<"<", "@", DiscordID(u), ">">>
      /\ DiscordID(u) # ""

\* one channel failed, the other was posted to with a real mention of bob and
\* a plain-text mention of carol: only bob is marked
C33_Witness ==
  \E w \in Workers, e \in effects :
    /\ ChannelFailed(w, "chan-general")
    /\ e.w = w /\ e.ch = "chan-prs" /\ e.op \in ChannelWrites
    /\ DOMAIN e.mentions = {"bob", "carol"}
    /\ tagged = {"bob"}

\* ------------------------------------------------- precedence of PR states
\* the state a workflow state maps to, "unknown" for the ones not named
WorkflowMapping(ws) ==
  CASE ws \in {"IN_DRAFT", "NEWLY_PUBLISHED"} -> "draft"
    [] ws = "PUBLISHED_WAITING_FOR_TESTS" -> "tests_running"
    [] ws = "TESTED_WAITING_FOR_FIXES" -> "tests_broken"
    [] ws = "REVIEWED_NEEDS_REFINEMENT" -> "changes_requested"
    [] ws = "APPROVED_WAITING_FOR_MERGE" -> "approved"
    [] ws \in {"TESTED_WAITING_FOR_ASSIGNMENT", "ASSIGNED_WAITING_FOR_REVIEW",
               "REFINED_WAITING_FOR_APPROVAL"} -> "needs_review"
    [] OTHER -> "unknown"
\* the conditions in the order of their precedence, each with its state
Precedence(c) ==
  << <<c.merged, "merged">>, <<c.closed, "closed">>, <<c.draft, "draft">>,
     <<c.mergeConflict, "conflict">>, <<c.checksFailing > 0, "tests_broken">>,
     <<TRUE, WorkflowMapping(c.workflowState)>> >>

\* C39: the result of StateFromAnalysis is the state of the first condition
\* that holds in the order merged, closed, draft, conflict, failing checks,
\* workflow-state mapping (unknown when the workflow state maps to nothing),
\* whatever the conditions after it are.
C39_StatePrecedence ==
  stateCall.out # "" =>
    \E i \in 1..6 :
      /\ Precedence(stateCall)[i][1]
      /\ \A j \in 1..(i - 1) : ~Precedence(stateCall)[j][1]
      /\ stateCall.out = Precedence(stateCall)[i][2]

\* a call where every condition holds at once: a merged, closed draft with a
\* conflict, failing checks and a workflow state that maps to approved
C39_Witness ==
  /\ stateCall.out = "merged"
  /\ stateCall.closed /\ stateCall.draft /\ stateCall.mergeConflict
  /\ stateCall.checksFailing > 0
  /\ stateCall.workflowState = "APPROVED_WAITING_FOR_MERGE"

\* ------------------------------------------------ one sweep of the Manager
\* the attempts Manager m made on the entry dm in its current sweep
SweepAttempts(m, dm) ==
  {a \in attempts : a.mgr = m /\ a.dm = dm /\ a.at >= mgr[m].lastSweep}

\* C34: in one sweep every fetched entry is processed: whatever happened to
\* an entry (delivery failed, rate-limited, no sender, removal failed), the
\* entries after it are still attempted before the sweep ends.
C34_SweepAttemptsAll ==
  \A m \in Managers :
    /\ mgr[m].batch \subseteq mgr[m].fetched
    /\ \A dm \in mgr[m].fetched \ mgr[m].batch : SweepAttempts(m, dm) # {}
    /\ mgr[m].pc = "idle" => mgr[m].batch = {}
    /\ mgr[m].pc = "sweep" => mgr[m].batch # {}

\* a sweep over two due entries has ended; the delivery of one failed and the
\* other one was attempted as well
C34_Witness ==
  \E m \in Managers :
    /\ mgr[m].pc = "idle" /\ Cardinality(mgr[m].fetched) = 2
    /\ \A dm \in mgr[m].fetched : SweepAttempts(m, dm) # {}
    /\ \E a \in attempts : a.mgr = m /\ a.dm \in mgr[m].fetched /\ a.outcome = "failed"

\* ------------------------------------------------- directory lookup tiers
\* the matching order the tests of the directory lookup lay down
\* (findUserInMembers): the index of the member found, 0 for no match
findUserInMembers(username, members) ==
  LET idx == 1..Len(members)
      \* the first member of the set, 0 when it is empty
      first(hits) == IF hits = {} THEN 0 ELSE CHOOSE i \in hits : \A j \in hits : i <= j
      exactU == first({i \in idx : members[i].Username = username})
      exactG == first({i \in idx : members[i].GlobalName = username})
      exactN == first({i \in idx : members[i].Nick = username})
      foldU == first({i \in idx : EqualFold(members[i].Username, username)})
      foldG == first({i \in idx : EqualFold(members[i].GlobalName, username)})
      foldN == first({i \in idx : EqualFold(members[i].Nick, username)})
      matches == {i \in idx :
                    \/ HasPrefix(ToLower(members[i].Username), ToLower(username))
                    \/ HasPrefix(ToLower(members[i].GlobalName), ToLower(username))
                    \/ HasPrefix(ToLower(members[i].Nick), ToLower(username))}
  IN  IF username = <<>> THEN 0
      ELSE IF exactU # 0 THEN exactU
      ELSE IF exactG # 0 THEN exactG
      ELSE IF exactN # 0 THEN exactN
      ELSE IF foldU # 0 THEN foldU
      ELSE IF foldG # 0 THEN foldG
      ELSE IF foldN # 0 THEN foldN
      ELSE IF Cardinality(matches) = 1 THEN CHOOSE i \in matches : TRUE
      ELSE 0

\* C38: the directory lookup returns the first hit in the order exact
\* username, exact display name, exact nickname, the same three without
\* regard to case, then a prefix match if exactly one member matches the
\* prefix; otherwise no match.
C38_LookupTiers ==
  lookupCall.done =>
    LET i == findUserInMembers(lookupCall.username, lookupCall.members)
    IN  lookupCall.out = IF i = 0 THEN "" ELSE MemberID(i)

\* ------------------------------------------- no lost update in the queue
\* C35: when no QueuePendingDM or RemovePendingDM call is in progress, the
\* pending-DM queue holds exactly the entries whose QueuePendingDM returned
\* and whose RemovePendingDM did not, whatever the interleaving of the calls
\* of the instances was.
C35_QueueLosesNoUpdate ==
  (\A i \in Instances : inst[i].pc = "idle") =>
    fidoQueue = queueLog.queued \ queueLog.removed

\* ------------------------------------------------- the internal entry
\* C32: the internal entry of the NextAction map is ignored by the DM step:
\* it is never looked up as a user and no PendingDM is queued for it.
C32_SentinelIgnored ==
  /\ \A w \in Workers : <<"DiscordID", SystemUser>> \notin wk[w].calls
  /\ \A q \in queued : q.username # SystemUser

\* ------------------------------------------------- DMs of a finished PR
\* the worker sent UpdateDM for the existing DM of user u
UpdatedDM(w, u) == <<"UpdateDM", u>> \in wk[w].calls

\* C36: when a merged or closed event was processed, the existing DM of every
\* user with a stored DMInfo for the PR was updated, and no DM was queued.
C36_ClosedUpdatesDMs ==
  \A w \in Workers :
    (wk[w].pc = "done" /\ SkipsDMs(wk[w].prState)
       /\ <<"queueDMNotifications", "">> \in wk[w].calls) =>
      /\ \A u \in wk[w].dmUsers : UpdatedDM(w, u)
      /\ \A q \in queued : q.by # w

\* --------------------------------------------------- failed store reads
\* C37: a worker that is told "not found" for a (PR, channel) which has a
\* message or thread in the store does not create a second one.
C37_FalseNotFoundNoDuplicate ==
  \A w \in Workers, e \in effects :
    (e.w = w /\ e.ch \in wk[w].found /\ ~e.exists) => e.op \notin Creations

\* ------------------------------------------------ channels named by id
\* C40: a channel that the configuration names by its id, and that the bot
\* can post to, is posted to by every event that is processed to the end.
C40_ChannelByIDPosted ==
  \A w \in Workers, i \in 1..Len(repoChannels) :
    (wk[w].pc = "done" /\ <<"MarkProcessed", "">> \in wk[w].calls
       /\ LooksLikeID(repoChannels[i]) /\ IsBotInChannel(repoChannels[i])) =>
      WroteTo(w, repoChannels[i])
====
